---- MODULE Spec2Model ----
(***************************************************************************)
(* Time-series (versioned) ticket storage of help-chat: the generic        *)
(* TimeSeriesRepositoryImpl, the ticketRepository built on it and the      *)
(* TicketService business rules, run by concurrent request goroutines      *)
(* against one SQLite database.                                            *)
(*                                                                         *)
(* Every action is one database statement of a handler together with the   *)
(* local code that follows it up to the next statement.  Goroutines        *)
(* interleave between statements.                                          *)
(***************************************************************************)
EXTENDS Integers, Sequences, FiniteSets, TLC

\* ------------------------------------------------------------ bounds
\* Number of service / store calls started in one behaviour.
MaxCalls == 3

\* Request goroutines that run concurrently.  The server hands a request to
\* any free goroutine; they are interchangeable, so the first idle one takes it.
Procs == {"p1", "p2"}
Rank == [p1 |-> 1, p2 |-> 2]

\* ------------------------------------------------------------ nil values
\* nil *time.Time (times read from the clock are >= 1)
NilTime == 0
\* uuid.Nil (ids produced by uuid.New() are >= 1)
NilID == 0
\* nil *uuid.UUID reference to a user or a category
NilRef == "nil"

\* ------------------------------------------------------------ enums
StatusOpen == "OPEN"
StatusInProgress == "IN_PROGRESS"
StatusResolved == "RESOLVED"
StatusClosed == "CLOSED"
Statuses == {StatusOpen, StatusInProgress, StatusResolved, StatusClosed}

PriorityLow == "LOW"
PriorityMedium == "MEDIUM"
PriorityHigh == "HIGH"
PriorityCritical == "CRITICAL"

RoleEndUser == "END_USER"
RoleSupportAgent == "SUPPORT_AGENT"
RoleAdministrator == "ADMINISTRATOR"
RoleManager == "MANAGER"

\* ------------------------------------------------------------ collaborators
\* The users table (read-only here): one user per role.  "uGhost" is an id
\* with no row.
Users == [uEnd |-> RoleEndUser, uAgent |-> RoleSupportAgent,
          uMgr |-> RoleManager, uAdmin |-> RoleAdministrator]
UserIDs == DOMAIN Users \cup {"uGhost"}

\* userRepository.GetByID: the user's role, or NilRef for (nil, nil).
UserGetByID(u) == IF u \in DOMAIN Users THEN Users[u] ELSE NilRef

IsAdminMut(role) == role # RoleEndUser
IsAdmin(role) == role = RoleAdministrator \/ role = RoleManager

IsAgentMut(role) == role = RoleAdministrator \/ role = RoleManager

IsAgent(role) ==
    role = RoleSupportAgent \/ role = RoleAdministrator \/ role = RoleManager

\* The categories table (read-only here): IsActive per category.  "cGhost"
\* is an id with no row.
Categories == [cA |-> TRUE, cB |-> TRUE, cOff |-> FALSE]
CategoryIDs == DOMAIN Categories \cup {"cGhost"}

\* The category check of CreateTicket and UpdateTicket: "" when the request
\* passes, else the error returned.
CategoryErrorMut(c) ==
    IF c = NilRef THEN ""
    ELSE IF c \notin DOMAIN Categories THEN "failed to get category"
    ELSE ""

CategoryError(c) ==
    IF c = NilRef THEN ""
    ELSE IF c \notin DOMAIN Categories THEN "failed to get category"
    ELSE IF ~Categories[c] THEN "category is not active"
    ELSE ""

\* ------------------------------------------------------------ state
VARIABLES
    tickets,    \* the committed tickets table: primary key id -> row
    parentOf,   \* history: id of a clone -> id of the row it was cloned from
    nextID,     \* ids handed out by uuid.New() so far
    clock,      \* last value time.Now() returned
    calls,      \* calls started so far
    pc,         \* per goroutine: the statement it executes next
    call,       \* per goroutine: the call it runs (operation and arguments)
    ticket,     \* per goroutine: the *models.Ticket the service loaded
    current,    \* per goroutine: `current` of Update / Archive
    cloned,     \* per goroutine: `cloned` of Update
    txLock,     \* per goroutine: SQLite lock held by its open transaction
    txWrites,   \* per goroutine: rows written inside its open transaction
    res,        \* the error the step just taken returned to its caller ("nil"
                \* for a nil error), "" when that step returned nothing
    query,      \* the *models.TicketQuery as the last call of List received it
    response,   \* what that call of List returned
    perm,       \* per request: the last permission check of the middleware
    path        \* the statuses one ticket went through, oldest first

dbVars == <<tickets, parentOf, nextID, clock>>
txVars == <<current, cloned, txLock, txWrites>>
procVars == <<calls, pc, call, ticket, current, cloned, txLock, txWrites, res>>
readVars == <<query, response, perm, path>>
vars == <<tickets, parentOf, nextID, clock, calls, pc, call, ticket,
          current, cloned, txLock, txWrites, res, query, response, perm, path>>

\* The zero *models.Ticket (a nil pointer, or a struct not yet filled).
NoTicket ==
    [ID |-> NilID, CreationTime |-> NilTime, ExpirationTime |-> NilTime,
     Title |-> "", Description |-> "", Status |-> "", Priority |-> "",
     CategoryID |-> NilRef, AssignedAgentID |-> NilRef, CreatedByID |-> NilRef,
     EscalatedAt |-> NilTime, EscalatedTo |-> NilRef, ResolvedAt |-> NilTime,
     DueDate |-> NilTime]

\* An UpdateTicketRequest with every field nil.
NoRequest ==
    [Title |-> "", Description |-> "", Priority |-> "", CategoryID |-> NilRef,
     DueDate |-> NilTime]

NoCall ==
    [op |-> "", id |-> NilID, user |-> NilRef, status |-> "", mut |-> "",
     req |-> NoRequest]

NoWrites == [i \in {} |-> NoTicket]

\* Left-biased merge of two tables.
Merge(f, g) == f @@ g

\* ------------------------------------------------------------ models.Ticket
IsCurrentVersion(t) == t.ExpirationTime = NilTime

\* Ticket.SetExpirationTime
SetExpirationTimeMut(t, now) ==
    [t EXCEPT !.ExpirationTime = now, !.Status = StatusClosed]
SetExpirationTime(t, now) == [t EXCEPT !.ExpirationTime = now]

IsEscalatedMut(t) == t.EscalatedTo # NilRef /\ t.EscalatedAt = NilTime
IsEscalated(t) == t.EscalatedAt # NilTime

\* Ticket.Clone: the business fields, a new id, CreationTime = now, no
\* expiration.
CloneMut(t, id, now) ==
    [NoTicket EXCEPT !.ID = id, !.CreationTime = now, !.Title = t.Title,
                     !.Description = t.Description, !.Status = t.Status,
                     !.Priority = t.Priority, !.CategoryID = t.CategoryID,
                     !.AssignedAgentID = t.AssignedAgentID,
                     !.EscalatedAt = t.EscalatedAt,
                     !.EscalatedTo = t.EscalatedTo,
                     !.ResolvedAt = t.ResolvedAt, !.DueDate = t.DueDate]
Clone(t, id, now) ==
    [ID |-> id, CreationTime |-> now, ExpirationTime |-> NilTime,
     Title |-> t.Title, Description |-> t.Description, Status |-> t.Status,
     Priority |-> t.Priority, CategoryID |-> t.CategoryID,
     AssignedAgentID |-> t.AssignedAgentID, CreatedByID |-> t.CreatedByID,
     EscalatedAt |-> t.EscalatedAt, EscalatedTo |-> t.EscalatedTo,
     ResolvedAt |-> t.ResolvedAt, DueDate |-> t.DueDate]

\* ------------------------------------------------------------ SQLite
\* The database is one SQLite file (sql.Open("sqlite", ...), pool of up to
\* 100 connections).  A transaction takes the SHARED lock at its first read
\* and keeps it to its end; its first write needs the RESERVED lock, which
\* one connection holds at a time; a commit needs the EXCLUSIVE lock, which
\* is refused while another connection holds SHARED.  A refused lock is
\* SQLITE_BUSY, returned to the caller as the statement's error.  With the
\* pool set to one connection a statement waits instead; that is the
\* interleaving in which it runs after the other transaction has ended.

\* p's first write in its transaction can take RESERVED.
CanReserve(p) == \A q \in Procs \ {p} : txLock[q] # "reserved"

\* p can take EXCLUSIVE to commit.
CanCommit(p) == \A q \in Procs \ {p} : txLock[q] = "none"

\* A statement run outside a transaction commits on its own: it needs
\* RESERVED and then EXCLUSIVE.
CanWrite(p) == CanReserve(p) /\ CanCommit(p)

\* Rows p's transaction sees: its own writes over the committed table.
TxView(p) == Merge(txWrites[p], tickets)

\* WHERE id = ? AND expiration_time IS NULL
HasCurrent(tbl, id) == id \in DOMAIN tbl /\ IsCurrentVersion(tbl[id])

\* ticketRepository.GetByID found a row: its first query is
\* GetCurrentByID (WHERE id = ? AND expiration_time IS NULL), its second
\* reloads the same row by primary key with the preloads.
GetByID(id) == HasCurrent(tickets, id)

\* GetHistory: WHERE id = ? ORDER BY creation_time ASC.  id is the primary
\* key, so the result has at most one row.
GetHistory(id) == IF id \in DOMAIN tickets THEN <<tickets[id]>> ELSE <<>>

\* ------------------------------------------------------------ requests
\* CreateTicketRequest values (a nil CategoryID / DueDate is NilRef / NilTime).
CreateTicketRequests ==
    [Title : {"A"}, Description : {"dA"}, Priority : {PriorityMedium},
     CategoryID : {NilRef, "cA", "cOff", "cGhost"}, DueDate : {NilTime}]

\* The creator each request comes from.
CreatorOf(req) == IF req.CategoryID = NilRef THEN "uEnd" ELSE "uAgent"

\* UpdateTicketRequest values: a nil pointer field is "", NilRef or NilTime.
UpdateTicketRequests ==
    { [Title |-> "B", Description |-> "", Priority |-> "",
       CategoryID |-> NilRef, DueDate |-> NilTime],
      [Title |-> "", Description |-> "", Priority |-> PriorityHigh,
       CategoryID |-> NilRef, DueDate |-> 9],
      [Title |-> "", Description |-> "dB", Priority |-> "",
       CategoryID |-> "cB", DueDate |-> NilTime],
      [Title |-> "", Description |-> "", Priority |-> "",
       CategoryID |-> "cOff", DueDate |-> NilTime] }

\* Mutators handed to the generic Update by callers other than
\* ticketRepository.Update (whose closure is "copy"): one assigning a field,
\* one returning an error, one panicking.
StoreMutators == {"prio", "fail", "panic"}

\* Ids a caller can name: every id uuid.New() has produced.
TargetIDs == 1..nextID

\* ------------------------------------------------------------ steps
Set(f, p, v) == [f EXCEPT ![p] = v]

\* The call returns r ("nil" for a nil error) and its goroutine ends: locals
\* are dropped and an open transaction is over (rolled back, or closed by
\* database/sql after Commit).
Return(p, r) ==
    /\ pc' = Set(pc, p, "idle")
    /\ res' = r
    /\ call' = Set(call, p, NoCall)
    /\ ticket' = Set(ticket, p, NoTicket)
    /\ current' = Set(current, p, NoTicket)
    /\ cloned' = Set(cloned, p, NoTicket)
    /\ txLock' = Set(txLock, p, "none")
    /\ txWrites' = Set(txWrites, p, NoWrites)
    /\ UNCHANGED readVars

Goto(p, label) ==
    /\ pc' = Set(pc, p, label)
    /\ res' = ""
    /\ UNCHANGED <<call, readVars>>

\* The call c is under way on p and continues at label.
Enter(p, c, label) ==
    /\ pc' = Set(pc, p, label)
    /\ call' = Set(call, p, c)
    /\ res' = ""
    /\ UNCHANGED readVars

\* A call starts on goroutine p.
Start(p) ==
    /\ pc[p] = "idle"
    /\ \A q \in Procs : Rank[q] < Rank[p] => pc[q] # "idle"
    /\ calls < MaxCalls
    /\ calls' = calls + 1

\* ------------------------------------------------------------ CreateTicket
NewTicketMut(req, createdByID, id, now) ==
    [NoTicket EXCEPT !.ID = id, !.CreationTime = now, !.Title = req.Title,
                     !.Description = req.Description, !.Priority = req.Priority,
                     !.CategoryID = req.CategoryID, !.CreatedByID = createdByID,
                     !.Status = StatusOpen, !.DueDate = req.DueDate,
                     !.AssignedAgentID = createdByID]
\* The ticket CreateTicket builds, as inserted: BeforeCreate gives the id,
\* autoCreateTime the creation time.
NewTicket(req, createdByID, id, now) ==
    [NoTicket EXCEPT !.ID = id, !.CreationTime = now, !.Title = req.Title,
                     !.Description = req.Description, !.Priority = req.Priority,
                     !.CategoryID = req.CategoryID, !.CreatedByID = createdByID,
                     !.Status = StatusOpen, !.DueDate = req.DueDate]

\* CreateTicket up to and including ticketRepo.Create.
CreateTicket(p, req) ==
    \E fault \in BOOLEAN :
        LET err == CategoryError(req.CategoryID)
            createdByID == CreatorOf(req)
            id == nextID + 1
            now == clock + 1
        IN  /\ Start(p)
            /\ IF err # ""
               THEN /\ Return(p, err)
                    /\ UNCHANGED dbVars
               ELSE /\ nextID' = id
                    /\ clock' = now
                    /\ parentOf' = Merge(parentOf, [i \in {id} |-> NilID])
                    /\ IF fault \/ ~CanWrite(p)
                       THEN /\ Return(p, "failed to create ticket")
                            /\ UNCHANGED tickets
                       ELSE /\ tickets' =
                                 Merge([i \in {id} |->
                                          NewTicket(req, createdByID, id, now)],
                                       tickets)
                            /\ Enter(p, [NoCall EXCEPT !.op = "CreateTicket",
                                                        !.id = id], "tail_get")
                            /\ UNCHANGED <<ticket, txVars>>

\* The closing `return s.ticketRepo.GetByID(ctx, ticket.ID)` of CreateTicket
\* and UpdateTicket.  Its two queries only decide the value returned.
Tail_GetByID(p) ==
    /\ pc[p] = "tail_get"
    /\ UNCHANGED <<dbVars, calls>>
    /\ IF GetByID(call[p].id)
       THEN Return(p, "nil")
       ELSE Return(p, "record not found")

\* ------------------------------------------------------------ Update
\* The closure ticketRepository.Update passes: the ten updatable fields of the
\* caller's ticket are copied onto the clone.
CopyFieldsMut(clone, t) ==
    [clone EXCEPT !.Title = t.Title, !.Description = t.Description,
                  !.Status = t.Status, !.Priority = t.Priority,
                  !.CategoryID = t.CategoryID,
                  !.AssignedAgentID = t.AssignedAgentID,
                  !.EscalatedAt = t.EscalatedAt, !.EscalatedTo = t.EscalatedTo,
                  !.ResolvedAt = t.ResolvedAt, !.DueDate = t.DueDate,
                  !.CreatedByID = "uAdmin"]
CopyFields(clone, t) ==
    [clone EXCEPT !.Title = t.Title, !.Description = t.Description,
                  !.Status = t.Status, !.Priority = t.Priority,
                  !.CategoryID = t.CategoryID,
                  !.AssignedAgentID = t.AssignedAgentID,
                  !.EscalatedAt = t.EscalatedAt, !.EscalatedTo = t.EscalatedTo,
                  !.ResolvedAt = t.ResolvedAt, !.DueDate = t.DueDate]

\* updates(cloned) for the mutator the call carries.
ApplyMutator(p, clone) ==
    IF call[p].mut = "copy" THEN CopyFields(clone, ticket[p])
    ELSE IF call[p].mut = "prio" THEN [clone EXCEPT !.Priority = PriorityHigh]
    ELSE clone

\* What the call reports when its transaction has committed: UpdateTicket goes
\* on to its closing GetByID, the other callers return nil.
Committed(p) ==
    IF call[p].op = "UpdateTicket"
    THEN /\ Goto(p, "tail_get")
         /\ current' = Set(current, p, NoTicket)
         /\ cloned' = Set(cloned, p, NoTicket)
         /\ txLock' = Set(txLock, p, "none")
         /\ txWrites' = Set(txWrites, p, NoWrites)
         /\ ticket' = Set(ticket, p, NoTicket)
    ELSE Return(p, "nil")

\* TimeSeriesRepositoryImpl.Update called directly.
StoreUpdate(p, id, mut) ==
    /\ Start(p)
    /\ Enter(p, [NoCall EXCEPT !.op = "Update", !.id = id, !.mut = mut],
             "up_lookup")
    /\ UNCHANGED <<dbVars, ticket, txVars>>

\* The lookup of the current version inside the transaction.
LookupCurrent(p) == TxView(p)

\* The lock the lookup leaves the transaction holding.
LookupLockMut(p) == "none"
LookupLock(p) == "shared"

\* Lines 73-106: begin the transaction (a deferred BEGIN takes no lock), look
\* up the current version, clone it, apply the mutator, read the clock and
\* set the expiration on `current` (in memory).
Update_Lookup(p) ==
    /\ pc[p] = "up_lookup"
    /\ UNCHANGED <<calls, tickets>>
    /\ \E fault \in {"", "begin", "lookup"} :
        IF fault = "begin"
        THEN /\ Return(p, "failed to begin transaction")
             /\ UNCHANGED <<parentOf, nextID, clock>>
        ELSE IF fault = "lookup" \/ ~HasCurrent(LookupCurrent(p), call[p].id)
        THEN /\ Return(p, "failed to get current version")
             /\ UNCHANGED <<parentOf, nextID, clock>>
        ELSE LET cur == LookupCurrent(p)[call[p].id]
                 id == nextID + 1
                 c0 == Clone(cur, id, clock + 1)
             IN  /\ nextID' = id
                 /\ parentOf' = Merge(parentOf, [i \in {id} |-> cur.ID])
                 /\ IF call[p].mut = "fail"
                    THEN /\ Return(p, "failed to apply updates")
                         /\ clock' = clock + 1
                    ELSE IF call[p].mut = "panic"
                    THEN /\ Return(p, "nil")
                         /\ clock' = clock + 1
                    ELSE /\ clock' = clock + 2
                         /\ Goto(p, "up_expire")
                         /\ current' = Set(current, p,
                                SetExpirationTime(cur, clock + 2))
                         /\ cloned' = Set(cloned, p, ApplyMutator(p, c0))
                         /\ txLock' = Set(txLock, p, LookupLock(p))
                         /\ UNCHANGED <<ticket, txWrites>>

\* tx.Save(&current): every column of the row with current's id is written.
SaveCurrentMut(p) == txWrites[p]
SaveCurrent(p) == Merge([i \in {current[p].ID} |-> current[p]], txWrites[p])

\* Lines 108-113.
Update_Expire(p) ==
    /\ pc[p] = "up_expire"
    /\ UNCHANGED <<calls, dbVars>>
    /\ \E fault \in BOOLEAN :
        IF fault \/ ~CanReserve(p)
        THEN Return(p, "failed to expire current version")
        ELSE /\ Goto(p, "up_insert")
             /\ txLock' = Set(txLock, p, "reserved")
             /\ txWrites' = Set(txWrites, p, SaveCurrent(p))
             /\ UNCHANGED <<ticket, current, cloned>>

\* Lines 115-120: tx.Create(&cloned).
Update_Insert(p) ==
    /\ pc[p] = "up_insert"
    /\ UNCHANGED <<calls, dbVars>>
    /\ \E fault \in BOOLEAN :
        IF fault
        THEN Return(p, "failed to create new version")
        ELSE /\ Goto(p, "up_commit")
             /\ txWrites' = Set(txWrites, p,
                    Merge([i \in {cloned[p].ID} |-> cloned[p]], txWrites[p]))
             /\ UNCHANGED <<ticket, current, cloned, txLock>>

\* The committed table after tx.Commit(): the transaction's writes become
\* visible when it succeeds (ok), nothing of them when it fails.
CommitMut(p, ok) == Merge(txWrites[p], tickets)
Commit(p, ok) == IF ok THEN Merge(txWrites[p], tickets) ELSE tickets

\* Lines 122-127: tx.Commit().
Update_Commit(p) ==
    /\ pc[p] = "up_commit"
    /\ UNCHANGED <<calls, parentOf, nextID, clock>>
    /\ \E fault \in BOOLEAN :
        LET ok == ~fault /\ CanCommit(p)
        IN  /\ tickets' = Commit(p, ok)
            /\ IF ok THEN Committed(p)
                     ELSE Return(p, "failed to commit transaction")

\* ------------------------------------------------------------ Archive
\* TimeSeriesRepositoryImpl.Archive called directly.
StoreArchive(p, id) ==
    /\ Start(p)
    /\ Enter(p, [NoCall EXCEPT !.op = "Archive", !.id = id], "ar_lookup")
    /\ UNCHANGED <<dbVars, ticket, txVars>>

\* Lines 132-153: begin, look up the current version, read the clock and set
\* the expiration on `current` (in memory).
Archive_Lookup(p) ==
    /\ pc[p] = "ar_lookup"
    /\ UNCHANGED <<calls, tickets, parentOf, nextID>>
    /\ \E fault \in {"", "begin", "lookup"} :
        IF fault = "begin"
        THEN /\ Return(p, "failed to begin transaction")
             /\ UNCHANGED clock
        ELSE IF fault = "lookup" \/ ~HasCurrent(TxView(p), call[p].id)
        THEN /\ Return(p, "failed to get current version")
             /\ UNCHANGED clock
        ELSE /\ clock' = clock + 1
             /\ Goto(p, "ar_expire")
             /\ current' = Set(current, p,
                    SetExpirationTime(TxView(p)[call[p].id], clock + 1))
             /\ txLock' = Set(txLock, p, "shared")
             /\ UNCHANGED <<ticket, cloned, txWrites>>

\* Lines 155-159: tx.Save(&current).
Archive_Expire(p) ==
    /\ pc[p] = "ar_expire"
    /\ UNCHANGED <<calls, dbVars>>
    /\ \E fault \in BOOLEAN :
        IF fault \/ ~CanReserve(p)
        THEN Return(p, "failed to archive current version")
        ELSE /\ Goto(p, "ar_commit")
             /\ txLock' = Set(txLock, p, "reserved")
             /\ txWrites' = Set(txWrites, p, SaveCurrent(p))
             /\ UNCHANGED <<ticket, current, cloned>>

\* Lines 161-166: tx.Commit().
Archive_Commit(p) ==
    /\ pc[p] = "ar_commit"
    /\ UNCHANGED <<calls, parentOf, nextID, clock>>
    /\ \E fault \in BOOLEAN :
        LET ok == ~fault /\ CanCommit(p)
        IN  /\ tickets' = Commit(p, ok)
            /\ IF ok THEN Return(p, "nil")
                     ELSE Return(p, "failed to commit transaction")

\* TimeSeriesRepositoryImpl.HardDelete: DELETE ... WHERE id = ?
HardDelete(p, id) ==
    \E fault \in BOOLEAN :
        /\ Start(p)
        /\ UNCHANGED <<parentOf, nextID, clock>>
        /\ IF fault \/ ~CanWrite(p)
           THEN /\ Return(p, "failed to delete")
                /\ UNCHANGED tickets
           ELSE /\ tickets' = [i \in DOMAIN tickets \ {id} |-> tickets[i]]
                /\ Return(p, "nil")

\* ------------------------------------------------------------ service
\* A statement outside a transaction that updates columns of the row
\* WHERE id = ?: no row, no change, no error.
UpdateWhereID(id, row) ==
    IF id \in DOMAIN tickets THEN [tickets EXCEPT ![id] = row] ELSE tickets

\* ---- UpdateTicket
\* The request's fields written onto the loaded ticket (lines 101-116).
ApplyRequest(t, req) ==
    [t EXCEPT !.CategoryID = IF req.CategoryID # NilRef THEN req.CategoryID ELSE @,
              !.Title = IF req.Title # "" THEN req.Title ELSE @,
              !.Description = IF req.Description # "" THEN req.Description ELSE @,
              !.Priority = IF req.Priority # "" THEN req.Priority ELSE @,
              !.DueDate = IF req.DueDate # NilTime THEN req.DueDate ELSE @]

\* UpdateTicket up to the call of ticketRepo.Update (lines 79-118).
UpdateTicket(p, id, req) ==
    /\ Start(p)
    /\ UNCHANGED dbVars
    /\ IF ~GetByID(id)
       THEN Return(p, "failed to get ticket")
       ELSE IF CategoryError(req.CategoryID) # ""
       THEN Return(p, CategoryError(req.CategoryID))
       ELSE /\ Enter(p, [NoCall EXCEPT !.op = "UpdateTicket", !.id = id,
                                       !.mut = "copy", !.req = req],
                     "up_lookup")
            /\ ticket' = Set(ticket, p, ApplyRequest(tickets[id], req))
            /\ UNCHANGED txVars

\* ---- DeleteTicket
\* DeleteTicket up to the call of ticketRepo.Delete (lines 128-152).
DeleteTicket(p, id, userID) ==
    /\ Start(p)
    /\ UNCHANGED dbVars
    /\ IF ~GetByID(id)
       THEN Return(p, "failed to get ticket")
       ELSE IF UserGetByID(userID) = NilRef
       THEN Return(p, "user not found")
       ELSE IF ~IsAdmin(UserGetByID(userID))
       THEN Return(p, "insufficient permissions")
       ELSE IF tickets[id].Status # StatusOpen
       THEN Return(p, "can only delete open tickets")
       ELSE /\ Enter(p, [NoCall EXCEPT !.op = "DeleteTicket", !.id = id],
                     "ar_lookup")
            /\ UNCHANGED <<ticket, txVars>>

\* ---- AssignTicket
\* AssignTicket up to the call of ticketRepo.AssignToAgent (lines 179-200).
AssignTicket(p, id, agentID) ==
    /\ Start(p)
    /\ UNCHANGED dbVars
    /\ IF ~GetByID(id)
       THEN Return(p, "failed to get ticket")
       ELSE IF UserGetByID(agentID) = NilRef
       THEN Return(p, "agent not found")
       ELSE IF ~IsAgent(UserGetByID(agentID))
       THEN Return(p, "user is not a support agent")
       ELSE /\ Enter(p, [NoCall EXCEPT !.op = "AssignTicket", !.id = id,
                                       !.user = agentID], "write")
            /\ UNCHANGED <<ticket, txVars>>

\* ticketRepository.AssignToAgent
AssignToAgent(p) ==
    /\ pc[p] = "write"
    /\ call[p].op = "AssignTicket"
    /\ UNCHANGED <<calls, parentOf, nextID, clock>>
    /\ \E fault \in BOOLEAN :
        IF fault \/ ~CanWrite(p)
        THEN /\ Return(p, "failed to assign ticket")
             /\ UNCHANGED tickets
        ELSE /\ tickets' = UpdateWhereID(call[p].id,
                    [tickets[call[p].id] EXCEPT !.AssignedAgentID = call[p].user])
             /\ Return(p, "nil")

\* ---- UpdateTicketStatus
isValidStatusTransitionMut(from, to) ==
    \/ from = StatusOpen /\ to \in {StatusInProgress, StatusResolved, StatusClosed}
    \/ from = StatusInProgress /\ to \in {StatusOpen, StatusResolved, StatusClosed}
    \/ from = StatusResolved /\ to \in {StatusOpen, StatusInProgress, StatusClosed}
    \/ from = StatusClosed /\ to \in {StatusOpen, StatusInProgress}
isValidStatusTransitionNoReopen(from, to) ==
    \/ from = StatusOpen /\ to \in {StatusInProgress, StatusResolved, StatusClosed}
    \/ from = StatusInProgress /\ to \in {StatusOpen, StatusResolved, StatusClosed}
    \/ from = StatusResolved /\ to \in {StatusInProgress, StatusClosed}
isValidStatusTransition(from, to) ==
    \/ from = StatusOpen /\ to \in {StatusInProgress, StatusResolved, StatusClosed}
    \/ from = StatusInProgress /\ to \in {StatusOpen, StatusResolved, StatusClosed}
    \/ from = StatusResolved /\ to \in {StatusInProgress, StatusClosed}
    \/ from = StatusClosed /\ to \in {StatusOpen, StatusInProgress}

\* UpdateTicketStatus up to the call of ticketRepo.UpdateStatus (lines
\* 210-224).  status is one of the four the request validation lets through.
UpdateTicketStatus(p, id, status) ==
    /\ Start(p)
    /\ UNCHANGED dbVars
    /\ IF ~GetByID(id)
       THEN Return(p, "failed to get ticket")
       ELSE IF ~isValidStatusTransition(tickets[id].Status, status)
       THEN Return(p, "invalid status transition")
       ELSE /\ Enter(p, [NoCall EXCEPT !.op = "UpdateTicketStatus", !.id = id,
                                       !.status = status], "write")
            /\ UNCHANGED <<ticket, txVars>>

\* ticketRepository.UpdateStatus: resolved_at is stamped for RESOLVED and
\* CLOSED and left alone otherwise.
UpdateStatus(p) ==
    /\ pc[p] = "write"
    /\ call[p].op = "UpdateTicketStatus"
    /\ UNCHANGED <<calls, parentOf, nextID>>
    /\ LET stamp == call[p].status \in {StatusResolved, StatusClosed}
           now == clock + 1
       IN  /\ clock' = IF stamp THEN now ELSE clock
           /\ \E fault \in BOOLEAN :
                IF fault \/ ~CanWrite(p)
                THEN /\ Return(p, "failed to update ticket status")
                     /\ UNCHANGED tickets
                ELSE /\ tickets' = UpdateWhereID(call[p].id,
                            [tickets[call[p].id] EXCEPT
                                !.Status = call[p].status,
                                !.ResolvedAt = IF stamp THEN now ELSE @])
                     /\ Return(p, "nil")

\* ---- EscalateTicket
\* EscalateTicket up to the call of ticketRepo.Escalate (lines 234-260).
EscalateTicket(p, id, escalatedTo) ==
    /\ Start(p)
    /\ UNCHANGED dbVars
    /\ IF ~GetByID(id)
       THEN Return(p, "failed to get ticket")
       ELSE IF IsEscalated(tickets[id])
       THEN Return(p, "ticket is already escalated")
       ELSE IF UserGetByID(escalatedTo) = NilRef
       THEN Return(p, "target user not found")
       ELSE IF ~IsAdmin(UserGetByID(escalatedTo))
       THEN Return(p, "target user is not a manager or administrator")
       ELSE /\ Enter(p, [NoCall EXCEPT !.op = "EscalateTicket", !.id = id,
                                       !.user = escalatedTo], "write")
            /\ UNCHANGED <<ticket, txVars>>

\* ticketRepository.Escalate
Escalate(p) ==
    /\ pc[p] = "write"
    /\ call[p].op = "EscalateTicket"
    /\ UNCHANGED <<calls, parentOf, nextID>>
    /\ clock' = clock + 1
    /\ \E fault \in BOOLEAN :
        IF fault \/ ~CanWrite(p)
        THEN /\ Return(p, "failed to escalate ticket")
             /\ UNCHANGED tickets
        ELSE /\ tickets' = UpdateWhereID(call[p].id,
                    [tickets[call[p].id] EXCEPT !.EscalatedTo = call[p].user,
                                                !.EscalatedAt = clock + 1])
             /\ Return(p, "nil")

\* ------------------------------------------------------------ reads
\* ticketRepository.List with a nil filter (status = "") or a status filter,
\* on a page that holds every match: the rows found and the total counted.
\* The only conditions of the query are those of the filter.
List(status) ==
    LET found == {i \in DOMAIN tickets :
                     status = "" \/ tickets[i].Status = status}
    IN  [Tickets |-> {tickets[i] : i \in found}, Total |-> Cardinality(found)]

\* ticketRepository.GetStats, its COUNT queries read at one instant `now`.
GetStats(now) ==
    LET Count(S) == Cardinality(S)
        WithStatus(st) == {i \in DOMAIN tickets : tickets[i].Status = st}
    IN  [OpenTickets |-> Count(WithStatus(StatusOpen)),
         InProgressTickets |-> Count(WithStatus(StatusInProgress)),
         ResolvedTickets |-> Count(WithStatus(StatusResolved)),
         ClosedTickets |-> Count(WithStatus(StatusClosed)),
         TotalTickets |-> Count(DOMAIN tickets),
         EscalatedTickets |->
             Count({i \in DOMAIN tickets : tickets[i].EscalatedAt # NilTime}),
         OverdueTickets |->
             Count({i \in DOMAIN tickets :
                       tickets[i].DueDate # NilTime /\ tickets[i].DueDate < now})]

\* ------------------------------------------------------------ pagination
\* Most rows of the table a listing reads.
MaxTotal == 25

\* Go's int and int64 on a 64-bit build: two's complement, kept as four
\* 16-bit limbs, least significant first.  Arithmetic wraps.
Limb == 2^16

\* The int64 of a natural below 2^31.
Int64(n) == <<n % Limb, (n \div Limb) % Limb, 0, 0>>

IsNegative(x) == x[4] >= Limb \div 2
IsPositive(x) == ~IsNegative(x) /\ x # Int64(0)

\* x - 1
Minus1(x) ==
    IF x[1] > 0 THEN <<x[1] - 1, x[2], x[3], x[4]>>
    ELSE IF x[2] > 0 THEN <<Limb - 1, x[2] - 1, x[3], x[4]>>
    ELSE IF x[3] > 0 THEN <<Limb - 1, Limb - 1, x[3] - 1, x[4]>>
    ELSE <<Limb - 1, Limb - 1, Limb - 1, (x[4] - 1) % Limb>>

\* x * k for a natural k <= 2^15; the carry out of the top limb is lost.
Times(x, k) ==
    LET c1 == x[1] * k
        c2 == x[2] * k + c1 \div Limb
        c3 == x[3] * k + c2 \div Limb
        c4 == x[4] * k + c3 \div Limb
    IN  <<c1 % Limb, c2 % Limb, c3 % Limb, c4 % Limb>>

\* A *models.TicketFilter with every field nil, and the conditions
\* applyFilters adds for the two fields GetByUser and GetByAgent set.
NoFilter == [AssignedTo |-> NilRef, CreatedBy |-> NilRef]

applyFilters(filter) ==
    {i \in DOMAIN tickets :
        /\ filter.AssignedTo # NilRef
              => tickets[i].AssignedAgentID = filter.AssignedTo
        /\ filter.CreatedBy # NilRef
              => tickets[i].CreatedByID = filter.CreatedBy}

\* ORDER BY creation_time DESC (the order of a nil query.Sort) of the rows S.
RECURSIVE OrderByCreationTimeDesc(_)
OrderByCreationTimeDesc(S) ==
    IF S = {} THEN <<>>
    ELSE LET first == CHOOSE i \in S :
                        \A j \in S : tickets[j].CreationTime <= tickets[i].CreationTime
         IN  <<first>> \o OrderByCreationTimeDesc(S \ {first})

\* OFFSET offset of the rows: a negative offset skips nothing, one beyond
\* the table skips every row.
Offset(rows, offset) ==
    IF IsNegative(offset) THEN rows
    ELSE IF offset[4] # 0 \/ offset[3] # 0 \/ offset[2] >= Limb \div 2 THEN <<>>
    ELSE SubSeq(rows, offset[1] + offset[2] * Limb + 1, Len(rows))

\* LIMIT limit of the rows.
Limit(rows, limit) ==
    SubSeq(rows, 1, IF limit < Len(rows) THEN limit ELSE Len(rows))

\* The zero TicketQuery and the zero TicketListResponse; Err is "none" before
\* any call, "" for a response returned, "panic" for a call that panicked.
NoQuery == [Filter |-> NoFilter, Page |-> Int64(0), PageSize |-> 0]
NoResponse ==
    [Err |-> "none", Tickets |-> <<>>, Total |-> 0, Page |-> Int64(0),
     PageSize |-> 0, TotalPages |-> 0]

\* ticketRepository.List with its pagination, on a query with a nil Sort: the
\* ids of the rows of the page, and the counts.  The division of line 121
\* panics for a zero PageSize.
ListPage(q) ==
    LET found == applyFilters(q.Filter)
        total == Cardinality(found)
        offset == Times(Minus1(q.Page), q.PageSize)
        rows == Limit(Offset(OrderByCreationTimeDesc(found), offset), q.PageSize)
    IN  IF q.PageSize = 0
        THEN [NoResponse EXCEPT !.Err = "panic"]
        ELSE [Err |-> "", Tickets |-> rows, Total |-> total, Page |-> q.Page,
              PageSize |-> q.PageSize,
              TotalPages |-> (total + q.PageSize - 1) \div q.PageSize]

\* Page 1844674407370955163: one less, times 10, is 2^64 + 4.
WrappingPage == <<39323, 39321, 39321, 6553>>

\* The queries the service is called with.
Pages == {Int64(n) : n \in 0..3} \cup {WrappingPage}
PageSizes == {0, 1, 10, 20, 101}
TicketQueries == [Filter : {NoFilter}, Page : Pages, PageSize : PageSizes]

\* TicketService.ListTickets
ListTickets(q) ==
    LET defaulted ==
            [q EXCEPT !.Page = IF ~IsPositive(@) THEN Int64(1) ELSE @,
                      !.PageSize = IF @ <= 0 THEN 20 ELSE @]
    IN  /\ query' = defaulted
        /\ response' = ListPage(defaulted)
        /\ UNCHANGED <<dbVars, procVars, perm, path>>

\* TicketService.GetTicketsByUser and ticketRepository.GetByUser
GetTicketsByUser(userID, q) ==
    LET filtered == [q EXCEPT !.Filter.CreatedBy = userID]
    IN  /\ query' = filtered
        /\ response' = ListPage(filtered)
        /\ UNCHANGED <<dbVars, procVars, perm, path>>

\* TicketService.GetTicketsByAgent and ticketRepository.GetByAgent
GetTicketsByAgent(agentID, q) ==
    LET filtered == [q EXCEPT !.Filter.AssignedTo = agentID]
    IN  /\ query' = filtered
        /\ response' = ListPage(filtered)
        /\ UNCHANGED <<dbVars, procVars, perm, path>>

\* ------------------------------------------------------------ permissions
\* The permissions map of AuthMiddleware.HasPermission.
RolePermissions ==
    [END_USER |-> {"ticket:create", "ticket:read:own", "ticket:update:own"},
     SUPPORT_AGENT |->
        {"ticket:create", "ticket:read", "ticket:update", "ticket:assign",
         "ticket:status:update", "ticket:escalate", "ticket:stats:read"},
     MANAGER |->
        {"ticket:create", "ticket:read", "ticket:update", "ticket:assign",
         "ticket:status:update", "ticket:escalate", "ticket:stats:read",
         "ticket:delete", "user:manage"},
     ADMINISTRATOR |->
        {"ticket:create", "ticket:read", "ticket:update", "ticket:assign",
         "ticket:status:update", "ticket:escalate", "ticket:stats:read",
         "ticket:delete", "user:manage", "system:admin"}]

\* AuthMiddleware.HasPermission
HasPermission(role, permission) ==
    /\ role \in DOMAIN RolePermissions
    /\ permission \in RolePermissions[role]

\* The roles a request's user can carry ("GUEST" is a role outside the map)
\* and the permission strings routes ask for ("ticket:export" is in no list).
RequestRoles ==
    {RoleEndUser, RoleSupportAgent, RoleManager, RoleAdministrator, "GUEST"}
Permissions ==
    UNION {RolePermissions[r] : r \in DOMAIN RolePermissions}
        \cup {"ticket:export"}

\* No permission check made yet.
NoCheck == [Role |-> "", Permission |-> "", Allowed |-> FALSE, Done |-> FALSE]

\* AuthMiddleware.RequirePermission on a request whose user has the role:
\* Allowed is whether the next handler runs (otherwise 403).
RequirePermission(p, role, permission) ==
    /\ perm' = [perm EXCEPT ![p] =
                   [Role |-> role, Permission |-> permission,
                    Allowed |-> HasPermission(role, permission), Done |-> TRUE]]
    /\ UNCHANGED <<dbVars, procVars, query, response, path>>

\* ------------------------------------------------------------ status walk
\* Most statuses a walk records.
MaxPath == 5

\* One more legal UpdateTicketStatus on the ticket whose statuses path
\* records: the check of the service lets the new status through.
LegalUpdate(status) ==
    /\ Len(path) < MaxPath
    /\ isValidStatusTransition(path[Len(path)], status)
    /\ path' = Append(path, status)
    /\ UNCHANGED <<dbVars, procVars, query, response, perm>>

\* ------------------------------------------------------------ specification
\* No goroutine runs a call.
InitProcs ==
    /\ calls = 0
    /\ pc = [p \in Procs |-> "idle"]
    /\ call = [p \in Procs |-> NoCall]
    /\ ticket = [p \in Procs |-> NoTicket]
    /\ current = [p \in Procs |-> NoTicket]
    /\ cloned = [p \in Procs |-> NoTicket]
    /\ txLock = [p \in Procs |-> "none"]
    /\ txWrites = [p \in Procs |-> NoWrites]
    /\ res = ""

\* No read, permission check or status walk took place.
InitReads ==
    /\ query = NoQuery
    /\ response = NoResponse
    /\ perm = [p \in Procs |-> NoCheck]
    /\ path = <<>>

Init ==
    /\ tickets = NoWrites
    /\ parentOf = [i \in {} |-> NilID]
    /\ nextID = 0
    /\ clock = 0
    /\ InitProcs
    /\ InitReads

Next ==
    \E p \in Procs :
        \/ \E req \in CreateTicketRequests : CreateTicket(p, req)
        \/ Tail_GetByID(p)
        \/ \E id \in TargetIDs, mut \in StoreMutators : StoreUpdate(p, id, mut)
        \/ Update_Lookup(p)
        \/ Update_Expire(p)
        \/ Update_Insert(p)
        \/ Update_Commit(p)
        \/ \E id \in TargetIDs : StoreArchive(p, id)
        \/ Archive_Lookup(p)
        \/ Archive_Expire(p)
        \/ Archive_Commit(p)
        \/ \E id \in TargetIDs : HardDelete(p, id)
        \/ \E id \in TargetIDs, req \in UpdateTicketRequests :
                UpdateTicket(p, id, req)
        \/ \E id \in TargetIDs, userID \in UserIDs : DeleteTicket(p, id, userID)
        \/ \E id \in TargetIDs, agentID \in UserIDs : AssignTicket(p, id, agentID)
        \/ AssignToAgent(p)
        \/ \E id \in TargetIDs, status \in Statuses :
                UpdateTicketStatus(p, id, status)
        \/ UpdateStatus(p)
        \/ \E id \in TargetIDs, escalatedTo \in UserIDs :
                EscalateTicket(p, id, escalatedTo)
        \/ Escalate(p)

Spec == Init /\ [][Next]_vars

\* Reads of a table of up to MaxTotal current tickets, created one per tick
\* by two users, every third one assigned.
ListInit ==
    /\ \E n \in 0..MaxTotal :
          /\ tickets =
                [i \in 1..n |->
                    [NewTicket(CHOOSE req \in CreateTicketRequests :
                                   req.CategoryID = NilRef,
                               IF i % 2 = 1 THEN "uEnd" ELSE "uAgent", i, i)
                     EXCEPT !.AssignedAgentID =
                                IF i % 3 = 0 THEN "uAgent" ELSE NilRef]]
          /\ parentOf = [i \in 1..n |-> NilID]
          /\ nextID = n
          /\ clock = n
    /\ InitProcs
    /\ InitReads

ListNext ==
    \E q \in TicketQueries :
        \/ ListTickets(q)
        \/ GetTicketsByUser("uEnd", q)
        \/ GetTicketsByAgent("uAgent", q)

ListSpec == ListInit /\ [][ListNext]_vars

\* Permission checks of the requests two goroutines serve.
PermNext ==
    \E p \in Procs, role \in RequestRoles, permission \in Permissions :
        RequirePermission(p, role, permission)

PermSpec == Init /\ [][PermNext]_vars

\* Legal status updates of one ticket, from any status.
StatusInit ==
    /\ tickets = NoWrites
    /\ parentOf = [i \in {} |-> NilID]
    /\ nextID = 0
    /\ clock = 0
    /\ InitProcs
    /\ query = NoQuery
    /\ response = NoResponse
    /\ perm = [p \in Procs |-> NoCheck]
    /\ path \in {<<s>> : s \in Statuses}

StatusNext == \E status \in Statuses : LegalUpdate(status)

StatusSpec == StatusInit /\ [][StatusNext]_vars

\* ------------------------------------------------------------ properties
\* The first version of the logical ticket the row id belongs to.
RECURSIVE Root(_)
Root(id) == IF parentOf[id] = NilID THEN id ELSE Root(parentOf[id])

\* Statements of Update and Archive that run inside the transaction.
TxSteps ==
    {"up_lookup", "up_expire", "up_insert", "up_commit",
     "ar_lookup", "ar_expire", "ar_commit"}

\* C1: single current version.  In every reachable state each logical ticket
\* (a first version and every version cloned from it) has at most one stored
\* row whose expiration time is null.
SingleCurrentVersion ==
    \A i, j \in DOMAIN tickets :
        ( /\ Root(i) = Root(j)
          /\ IsCurrentVersion(tickets[i])
          /\ IsCurrentVersion(tickets[j]) ) => i = j

\* C1 happens: an update has committed, its predecessor is stored expired and
\* its clone is stored current.
SingleCurrentVersionWitness ==
    \E i, j \in DOMAIN tickets :
        /\ parentOf[j] = i
        /\ ~IsCurrentVersion(tickets[i])
        /\ IsCurrentVersion(tickets[j])

\* C2: serialized updates.  Two updates that looked up the same current row
\* never both commit: no two stored rows are clones of the same row.
SerializedUpdates ==
    \A i, j \in DOMAIN tickets :
        (parentOf[i] # NilID /\ parentOf[i] = parentOf[j]) => i = j

\* C2 happens: two updates are past the lookup of the same current row, the
\* first has expired it and inserted its clone in its transaction and is about
\* to commit.
SerializedUpdatesWitness ==
    \E p, q \in Procs :
        /\ p # q
        /\ pc[p] = "up_commit"
        /\ pc[q] = "up_expire"
        /\ current[p].ID = current[q].ID

\* C3: all-or-nothing update and archive.  No statement of Update or Archive
\* before the commit changes the committed table, and a call that returns an
\* error from any of its statements, the commit included, leaves the
\* committed table as it was.
AllOrNothing ==
    [][\A p \in Procs :
         ( /\ pc[p] \in TxSteps
           /\ pc'[p] # pc[p]
           /\ \/ pc[p] \notin {"up_commit", "ar_commit"}
              \/ res' \notin {"", "nil"} ) => tickets' = tickets]_vars

\* C3 happens: a commit has just failed while the transaction of the other
\* goroutine is open, and the row the failed call would have expired is still
\* stored current.
AllOrNothingWitness ==
    /\ res = "failed to commit transaction"
    /\ \E q \in Procs : HasCurrent(tickets, current[q].ID)

\* C4: history is append-only.  A successful update of id makes
\* GetHistory(id) one row longer, and no step other than HardDelete makes the
\* history of any id shorter.
HistoryAppendOnly ==
    [][\A id \in TargetIDs :
         /\ (\A p \in Procs :
               ( /\ pc[p] = "up_commit"
                 /\ call[p].id = id
                 /\ pc'[p] # pc[p]
                 /\ res' \in {"", "nil"} )
               => Len(GetHistory(id))' = Len(GetHistory(id)) + 1)
         /\ (Len(GetHistory(id))' < Len(GetHistory(id))
               => \E p \in Procs : HardDelete(p, id))]_vars

\* C5: status change, assignment and escalation are version-producing.  A
\* successful UpdateStatus, AssignToAgent or Escalate leaves the row it was
\* called on stored with its former field values and an expiration time, and
\* adds exactly one row: a current clone of it.
InPlaceWritesProduceVersions ==
    [][\A p \in Procs :
         ( /\ pc[p] = "write"
           /\ pc'[p] # pc[p]
           /\ res' = "nil"
           /\ call[p].id \in DOMAIN tickets )
         => LET id == call[p].id
            IN  /\ ~IsCurrentVersion(tickets'[id])
                /\ tickets'[id] = [tickets[id] EXCEPT
                       !.ExpirationTime = tickets'[id].ExpirationTime]
                /\ \E j \in DOMAIN tickets' \ DOMAIN tickets :
                       /\ DOMAIN tickets' = DOMAIN tickets \cup {j}
                       /\ parentOf'[j] = id
                       /\ IsCurrentVersion(tickets'[j])]_vars

\* The transition table of the ticket status.
TransitionTable ==
    { <<StatusOpen, StatusInProgress>>, <<StatusOpen, StatusResolved>>,
      <<StatusOpen, StatusClosed>>, <<StatusInProgress, StatusOpen>>,
      <<StatusInProgress, StatusResolved>>, <<StatusInProgress, StatusClosed>>,
      <<StatusResolved, StatusInProgress>>, <<StatusResolved, StatusClosed>>,
      <<StatusClosed, StatusOpen>>, <<StatusClosed, StatusInProgress>> }

\* C6: transition legality of one call.  UpdateTicketStatus on a ticket it
\* finds goes on to the repository only when (status read, status asked) is
\* in the transition table; for every other pair it returns the invalid
\* transition error at once and no stored row changes.
TransitionLegality ==
    [][\A p \in Procs, id \in TargetIDs, status \in Statuses :
         (calls' # calls /\ GetByID(id) /\ UpdateTicketStatus(p, id, status))
         => IF <<tickets[id].Status, status>> \in TransitionTable
            THEN pc'[p] = "write" /\ tickets' = tickets
            ELSE /\ pc'[p] = "idle"
                 /\ res' = "invalid status transition"
                 /\ tickets' = tickets]_vars

\* C6 happens: a call has just been refused as an invalid transition on a
\* ticket that is stored RESOLVED.
TransitionLegalityWitness ==
    /\ res = "invalid status transition"
    /\ \E i \in DOMAIN tickets :
          IsCurrentVersion(tickets[i]) /\ tickets[i].Status = StatusResolved

\* C7: status legality of every stored change.  Whenever the stored status of
\* a row changes in place, and whenever a new version is stored with a status
\* other than that of the version it replaces, the pair (old, new) is in the
\* transition table.
StoredStatusChangesLegal ==
    [][/\ \A i \in DOMAIN tickets \cap DOMAIN tickets' :
            tickets'[i].Status # tickets[i].Status
            => <<tickets[i].Status, tickets'[i].Status>> \in TransitionTable
       /\ \A j \in DOMAIN tickets' \ DOMAIN tickets :
            ( /\ parentOf'[j] \in DOMAIN tickets
              /\ tickets'[j].Status # tickets[parentOf'[j]].Status )
            => <<tickets[parentOf'[j]].Status, tickets'[j].Status>>
                   \in TransitionTable]_vars

\* C8: creation establishes OPEN.  The row CreateTicket stores is OPEN and
\* current, has the creator the call was given and has no assigned agent, no
\* escalation and no resolution time.
CreationEstablishesOpen ==
    [][\A p \in Procs, req \in CreateTicketRequests :
         (tickets' # tickets /\ CreateTicket(p, req))
         => \A j \in DOMAIN tickets' \ DOMAIN tickets :
               /\ tickets'[j].Status = StatusOpen
               /\ tickets'[j].ExpirationTime = NilTime
               /\ tickets'[j].CreatedByID = CreatorOf(req)
               /\ tickets'[j].AssignedAgentID = NilRef
               /\ tickets'[j].EscalatedAt = NilTime
               /\ tickets'[j].EscalatedTo = NilRef
               /\ tickets'[j].ResolvedAt = NilTime]_vars

\* C8 happens: CreateTicket is past its insert and the row it stored is there.
CreationEstablishesOpenWitness ==
    \E p \in Procs :
        /\ pc[p] = "tail_get"
        /\ call[p].op = "CreateTicket"
        /\ call[p].id \in DOMAIN tickets
        /\ tickets[call[p].id].CreatedByID = "uAgent"

\* C9: escalating an already-escalated ticket fails.  EscalateTicket on a
\* ticket whose current version has an escalation time returns the
\* already-escalated error for every target and changes no stored row.
EscalateEscalatedFails ==
    [][\A p \in Procs, id \in TargetIDs, escalatedTo \in UserIDs :
         ( /\ calls' # calls
           /\ HasCurrent(tickets, id)
           /\ tickets[id].EscalatedAt # NilTime
           /\ EscalateTicket(p, id, escalatedTo) )
         => /\ pc'[p] = "idle"
            /\ res' = "ticket is already escalated"
            /\ tickets' = tickets]_vars

\* C9 happens: a call has just been refused on an escalated ticket.
EscalateEscalatedFailsWitness ==
    /\ res = "ticket is already escalated"
    /\ \E i \in DOMAIN tickets :
          IsCurrentVersion(tickets[i]) /\ tickets[i].EscalatedAt # NilTime

\* C10: escalation is one-shot.  Once the current version of a logical ticket
\* has an escalation time, every later current version of that ticket has the
\* same escalation time and the same escalation target.
EscalationOneShot ==
    [][\A i \in DOMAIN tickets, j \in DOMAIN tickets' :
         ( /\ IsCurrentVersion(tickets[i])
           /\ tickets[i].EscalatedAt # NilTime
           /\ IsCurrentVersion(tickets'[j])
           /\ Root(j)' = Root(i) )
         => /\ tickets'[j].EscalatedAt = tickets[i].EscalatedAt
            /\ tickets'[j].EscalatedTo = tickets[i].EscalatedTo]_vars

\* C11: delete preconditions.  DeleteTicket on a ticket it finds goes on to
\* the archive only when the requesting user is an administrator or a manager
\* and the status read is OPEN; otherwise it returns an error at once, the
\* archive is not called and no stored row changes.
DeletePreconditions ==
    [][\A p \in Procs, id \in TargetIDs, userID \in UserIDs :
         (calls' # calls /\ GetByID(id) /\ DeleteTicket(p, id, userID))
         => IF /\ UserGetByID(userID) \in {RoleAdministrator, RoleManager}
               /\ tickets[id].Status = StatusOpen
            THEN pc'[p] = "ar_lookup" /\ tickets' = tickets
            ELSE /\ pc'[p] = "idle"
                 /\ res' \in {"user not found", "insufficient permissions",
                              "can only delete open tickets"}
                 /\ tickets' = tickets]_vars

\* C11 happens: a delete has just been refused for lack of privilege while a
\* current OPEN ticket is stored.
DeletePreconditionsWitness ==
    /\ res = "insufficient permissions"
    /\ \E i \in DOMAIN tickets :
          IsCurrentVersion(tickets[i]) /\ tickets[i].Status = StatusOpen

\* C12: archive semantics.  A successful Archive (called directly or by
\* DeleteTicket) gives the current version of its id an expiration time and
\* changes nothing else: the same rows are stored, every other row and every
\* other field of the row are as before.  The id then has no current version,
\* and the lookup of Update and of Archive on an id without a current version
\* fails as not found.
ArchiveSemantics ==
    [][\A p \in Procs :
         /\ (pc[p] = "ar_commit" /\ pc'[p] = "idle" /\ res' = "nil")
            => LET id == call[p].id
               IN  /\ HasCurrent(tickets, id)
                   /\ DOMAIN tickets' = DOMAIN tickets
                   /\ \A i \in DOMAIN tickets \ {id} : tickets'[i] = tickets[i]
                   /\ tickets'[id].ExpirationTime # NilTime
                   /\ tickets'[id] = [tickets[id] EXCEPT
                          !.ExpirationTime = tickets'[id].ExpirationTime]
                   /\ ~GetByID(id)'
         /\ ( /\ pc[p] \in {"up_lookup", "ar_lookup"}
              /\ pc'[p] # pc[p]
              /\ ~HasCurrent(tickets, call[p].id) )
            => /\ pc'[p] = "idle"
               /\ res' \in {"failed to get current version",
                            "failed to begin transaction"}]_vars

\* C12 happens: an archive has just committed; the row it expired is stored
\* and nothing was cloned from it.
ArchiveSemanticsWitness ==
    /\ res = "nil"
    /\ \E i \in DOMAIN tickets :
          /\ ~IsCurrentVersion(tickets[i])
          /\ \A j \in DOMAIN parentOf : parentOf[j] # i

\* The stored rows with a null expiration.
CurrentRows == {i \in DOMAIN tickets : IsCurrentVersion(tickets[i])}

\* C13: list and statistics see current versions only.  Every ticket List
\* returns is a current version and its total is the number of current
\* versions matching the filter; every count of GetStats is the number of
\* current versions with that property.
ListAndStatsCurrentOnly ==
    /\ \A status \in {""} \cup Statuses :
          /\ \A t \in List(status).Tickets : IsCurrentVersion(t)
          /\ List(status).Total =
                Cardinality({i \in CurrentRows :
                                status = "" \/ tickets[i].Status = status})
    /\ LET stats == GetStats(clock + 1)
           n(S) == Cardinality(S \cap CurrentRows)
       IN  /\ stats.TotalTickets = Cardinality(CurrentRows)
           /\ stats.OpenTickets =
                 n({i \in DOMAIN tickets : tickets[i].Status = StatusOpen})
           /\ stats.InProgressTickets =
                 n({i \in DOMAIN tickets : tickets[i].Status = StatusInProgress})
           /\ stats.ResolvedTickets =
                 n({i \in DOMAIN tickets : tickets[i].Status = StatusResolved})
           /\ stats.ClosedTickets =
                 n({i \in DOMAIN tickets : tickets[i].Status = StatusClosed})
           /\ stats.EscalatedTickets =
                 n({i \in DOMAIN tickets : tickets[i].EscalatedAt # NilTime})
           /\ stats.OverdueTickets =
                 n({i \in DOMAIN tickets :
                       tickets[i].DueDate # NilTime
                       /\ tickets[i].DueDate < clock + 1})

\* C14: no partial success in UpdateTicket.  An UpdateTicket call that has
\* got as far as the repository ends in one of two ways: its transaction has
\* committed and it returns no error, or it returns an error from a step that
\* leaves the committed table as it was.  It never returns an error once
\* its new version is committed.
NoPartialSuccess ==
    [][\A p \in Procs :
         (call[p].op = "UpdateTicket" /\ pc'[p] = "idle")
         => \/ pc[p] = "tail_get" /\ res' = "nil"
            \/ /\ pc[p] # "tail_get"
               /\ res' # "nil"
               /\ tickets' = tickets]_vars

\* C15: partial-field update.  The version an UpdateTicket commits has, in
\* each field the request can carry, the request's value when it carries one
\* and else the value of the version it supersedes, and it has the status,
\* assigned agent, escalation target and time, resolution time and creator
\* of the version it supersedes as that version is stored at the commit.
PartialFieldUpdate ==
    [][\A p \in Procs :
         ( /\ pc[p] = "up_commit"
           /\ call[p].op = "UpdateTicket"
           /\ pc'[p] = "tail_get" )
         => LET old == tickets[current[p].ID]
                new == tickets'[cloned[p].ID]
                req == call[p].req
            IN  /\ new.Title = IF req.Title # "" THEN req.Title ELSE old.Title
                /\ new.Description = IF req.Description # ""
                                     THEN req.Description ELSE old.Description
                /\ new.Priority = IF req.Priority # ""
                                  THEN req.Priority ELSE old.Priority
                /\ new.CategoryID = IF req.CategoryID # NilRef
                                    THEN req.CategoryID ELSE old.CategoryID
                /\ new.DueDate = IF req.DueDate # NilTime
                                 THEN req.DueDate ELSE old.DueDate
                /\ new.Status = old.Status
                /\ new.AssignedAgentID = old.AssignedAgentID
                /\ new.EscalatedTo = old.EscalatedTo
                /\ new.EscalatedAt = old.EscalatedAt
                /\ new.ResolvedAt = old.ResolvedAt
                /\ new.CreatedByID = old.CreatedByID]_vars

\* The business fields of a ticket.
BusinessFields ==
    {"Title", "Description", "Status", "Priority", "CategoryID",
     "AssignedAgentID", "CreatedByID", "EscalatedAt", "EscalatedTo",
     "ResolvedAt", "DueDate"}

\* The fields a mutator assigns.
AssignedBy(mut) ==
    IF mut = "copy" THEN BusinessFields \ {"CreatedByID"}
    ELSE IF mut = "prio" THEN {"Priority"}
    ELSE {}

\* C16: clone fidelity.  The version a committed Update stores has an id no
\* stored row had, a null expiration, and in every business field its
\* mutator did not assign the value of the version it was cloned from.
CloneFidelity ==
    [][\A p \in Procs :
         ( /\ pc[p] = "up_commit"
           /\ pc'[p] # pc[p]
           /\ res' \in {"", "nil"} )
         => LET old == tickets[current[p].ID]
                j == cloned[p].ID
            IN  /\ j \notin DOMAIN tickets
                /\ j \in DOMAIN tickets'
                /\ tickets'[j].ExpirationTime = NilTime
                /\ \A f \in BusinessFields \ AssignedBy(call[p].mut) :
                      tickets'[j][f] = old[f]]_vars

\* C16 happens: an Update whose mutator assigned the priority alone has
\* committed; its clone is stored next to the version it was cloned from.
CloneFidelityWitness ==
    \E j \in DOMAIN tickets :
        /\ parentOf[j] \in DOMAIN tickets
        /\ tickets[j].Priority = PriorityHigh
        /\ tickets[parentOf[j]].Priority = PriorityMedium
        /\ tickets[j].Title = tickets[parentOf[j]].Title
        /\ tickets[j].DueDate = NilTime

\* C17: immutable creator.  In every reachable state all stored versions of
\* one logical ticket have the same CreatedByID, and it is a creator that was
\* passed to CreateTicket.
ImmutableCreator ==
    /\ \A i, j \in DOMAIN tickets :
          Root(i) = Root(j) => tickets[i].CreatedByID = tickets[j].CreatedByID
    /\ \A i \in DOMAIN tickets :
          tickets[i].CreatedByID \in {CreatorOf(req) : req \in CreateTicketRequests}

\* C17 happens: a ticket created by the end user has been updated through
\* the service and both versions are stored.
ImmutableCreatorWitness ==
    \E i, j \in DOMAIN tickets :
        /\ parentOf[j] = i
        /\ tickets[i].CreatedByID = "uEnd"
        /\ tickets[j].Title = "B"

\* C18: version timestamps.  After every committed Update the new version's
\* creation time is at least that of the version it replaces, and the
\* expiration time of the replaced version is the creation time of the new
\* one.
VersionTimestamps ==
    [][\A p \in Procs :
         ( /\ pc[p] = "up_commit"
           /\ pc'[p] # pc[p]
           /\ res' \in {"", "nil"} )
         => LET i == current[p].ID
                j == cloned[p].ID
            IN  /\ tickets'[j].CreationTime >= tickets[i].CreationTime
                /\ tickets'[i].ExpirationTime = tickets'[j].CreationTime]_vars

\* C19: the store never swallows a failure.  An Update or Archive call
\* returns a nil error only from its commit, with its writes committed;
\* every call that ends at another statement returns an error.
NeverSwallowsFailure ==
    [][\A p \in Procs :
         (pc[p] \in TxSteps /\ pc'[p] = "idle" /\ res' = "nil")
         => /\ pc[p] \in {"up_commit", "ar_commit"}
            /\ tickets' = Merge(txWrites[p], tickets)
            /\ txWrites[p] # NoWrites]_vars

\* C20: expired versions are immutable.  A stored row that has an expiration
\* time keeps every field, the expiration time included, for as long as it
\* is stored.
ExpiredVersionsImmutable ==
    [][\A i \in DOMAIN tickets \cap DOMAIN tickets' :
         tickets[i].ExpirationTime # NilTime => tickets'[i] = tickets[i]]_vars

\* C21: an unprivileged caller learns nothing from DeleteTicket.  For a
\* requesting user whose role is END_USER or SUPPORT_AGENT the call returns
\* the insufficient-permissions error whatever is stored under the id: a
\* current row in any status, an expired row or no row.
DeleteLeaksNothing ==
    [][\A p \in Procs, id \in TargetIDs, userID \in DOMAIN Users :
         ( /\ calls' # calls
           /\ Users[userID] \in {RoleEndUser, RoleSupportAgent}
           /\ DeleteTicket(p, id, userID) )
         => res' = "insufficient permissions"]_vars

\* C22: escalation target eligibility.  EscalateTicket on a current ticket
\* that is not escalated goes on to the repository only when the target user
\* exists and is a manager or an administrator; for an unknown user, an end
\* user or a support agent it returns an error at once and no stored row
\* changes.  The repository's Escalate only ever runs for such a target.
EscalationTargetEligible ==
    [][/\ \A p \in Procs, id \in TargetIDs, escalatedTo \in UserIDs :
            ( /\ calls' # calls
              /\ pc[p] = "idle"
              /\ call'[p].op \in {"", "EscalateTicket"}
              /\ HasCurrent(tickets, id)
              /\ tickets[id].EscalatedAt = NilTime
              /\ EscalateTicket(p, id, escalatedTo) )
            => IF UserGetByID(escalatedTo) \in {RoleManager, RoleAdministrator}
               THEN pc'[p] = "write" /\ tickets' = tickets
               ELSE /\ pc'[p] = "idle"
                    /\ res' \in {"target user not found",
                                 "target user is not a manager or administrator"}
                    /\ tickets' = tickets
       /\ \A p \in Procs :
            (pc[p] = "write" /\ call[p].op = "EscalateTicket")
            => UserGetByID(call[p].user) \in {RoleManager, RoleAdministrator}]_vars

\* C22 happens: an escalation to a support agent has just been refused on a
\* current ticket that is not escalated.
EscalationTargetEligibleWitness ==
    /\ res = "target user is not a manager or administrator"
    /\ \E i \in DOMAIN tickets :
          IsCurrentVersion(tickets[i]) /\ tickets[i].EscalatedAt = NilTime

CategoryValidation ==
    [][LET CategoryErrors == {"failed to get category", "category is not active"}
           Valid(c) == c \in DOMAIN Categories /\ Categories[c]
           Rejected(p) == /\ pc'[p] = "idle"
                          /\ res' \in CategoryErrors
                          /\ UNCHANGED dbVars
       IN  /\ \A p \in Procs, req \in CreateTicketRequests :
                ( /\ calls' # calls
                  /\ pc[p] = "idle"
                  /\ call'[p].op \in {"", "CreateTicket"}
                  /\ req.CategoryID # NilRef
                  /\ CreateTicket(p, req) )
                => IF Valid(req.CategoryID)
                   THEN res' \notin CategoryErrors /\ nextID' = nextID + 1
                   ELSE Rejected(p)
           /\ \A p \in Procs, id \in TargetIDs, req \in UpdateTicketRequests :
                ( /\ calls' # calls
                  /\ pc[p] = "idle"
                  /\ call'[p].op \in {"", "UpdateTicket"}
                  /\ req.CategoryID # NilRef
                  /\ HasCurrent(tickets, id)
                  /\ UpdateTicket(p, id, req) )
                => IF Valid(req.CategoryID)
                   THEN pc'[p] = "up_lookup" /\ UNCHANGED dbVars
                   ELSE Rejected(p)
           /\ \A i \in DOMAIN tickets' :
                tickets'[i].CategoryID # NilRef => Valid(tickets'[i].CategoryID)]_vars

\* C24 happens: a request naming the inactive category has just been refused
\* while a current row carries a category that an update put there.
CategoryValidationWitness ==
    /\ res = "category is not active"
    /\ \E i \in DOMAIN tickets :
          IsCurrentVersion(tickets[i]) /\ tickets[i].CategoryID = "cB"

\* C25: pagination arithmetic.  Whenever List answered a query with
\* page >= 1 and pageSize >= 1 over a table with `total` matching rows, the
\* response reports that total, totalPages = ceil(total / pageSize), and holds
\* exactly max(0, min(pageSize, total - (page - 1) * pageSize)) tickets
\* (none when page - 1 is at least total).
PaginationArithmetic ==
    ( /\ response.Err = ""
      /\ IsPositive(query.Page)
      /\ query.PageSize >= 1 )
    => LET total == Cardinality(applyFilters(query.Filter))
           size == query.PageSize
           before == Minus1(query.Page)
           left == IF before[4] # 0 \/ before[3] # 0 \/ before[2] # 0
                      \/ before[1] * size >= total
                   THEN 0
                   ELSE total - before[1] * size
       IN  /\ response.Total = total
           /\ response.TotalPages * size >= total
           /\ (response.TotalPages - 1) * size < total
           /\ response.TotalPages >= 0
           /\ Len(response.Tickets) = IF left < size THEN left ELSE size

PermissionsNested ==
    \A p \in Procs :
        perm[p].Done
        => LET permission == perm[p].Permission
           IN  /\ HasPermission(RoleEndUser, permission)
                     => HasPermission(RoleSupportAgent, permission)
               /\ HasPermission(RoleSupportAgent, permission)
                     => HasPermission(RoleManager, permission)
               /\ HasPermission(RoleManager, permission)
                     => HasPermission(RoleAdministrator, permission)

\* Statuses that legal UpdateTicketStatus calls lead to from a status of S in
\* at most n calls.
RECURSIVE ReachableWithin(_, _)
ReachableWithin(S, n) ==
    IF n = 0 THEN S
    ELSE ReachableWithin(
             S \cup {to \in Statuses :
                        \E from \in S : isValidStatusTransition(from, to)},
             n - 1)

\* C28: no terminal status.  Whatever status a ticket has come to, at least
\* one UpdateTicketStatus is legal from it, and every other status can be
\* reached from it by a finite sequence of legal calls.
NoTerminalStatus ==
    path # <<>>
    => LET status == path[Len(path)]
       IN  /\ \E to \in Statuses : isValidStatusTransition(status, to)
           /\ Statuses \ {status}
                 \subseteq ReachableWithin({status}, Cardinality(Statuses))

\* C28 happens: a ticket that was CLOSED has been reopened and has gone
\* through all four statuses by legal calls.
NoTerminalStatusWitness ==
    /\ Len(path) >= 2
    /\ path[1] = StatusClosed
    /\ path[2] = StatusOpen
    /\ {path[i] : i \in DOMAIN path} = Statuses

\* C29: an archived ticket stays archived.  Once a logical ticket has stored
\* rows and none of them is current (its archive has committed), no step of
\* any call, one already under way included, leaves it with a row whose
\* expiration is null.
ArchivedStaysArchived ==
    [][tickets' # tickets \/ parentOf' # parentOf
         => \A i \in DOMAIN tickets :
               (\A j \in DOMAIN tickets :
                   Root(j) = Root(i) => ~IsCurrentVersion(tickets[j]))
               => \A j \in DOMAIN tickets' :
                     Root(j)' = Root(i) => ~IsCurrentVersion(tickets'[j])]_vars

\* C29 happens: the archive of a ticket has committed while an UpdateTicket
\* that loaded that ticket before is still on its way to the repository.
ArchivedStaysArchivedWitness ==
    \E p \in Procs :
        /\ pc[p] = "up_lookup"
        /\ call[p].op = "UpdateTicket"
        /\ call[p].id \in DOMAIN tickets
        /\ tickets[call[p].id].ExpirationTime # NilTime
        /\ \A j \in DOMAIN tickets :
              Root(j) = Root(call[p].id) => ~IsCurrentVersion(tickets[j])

\* C30: only OPEN tickets are archived by DeleteTicket.  Whenever the Archive
\* that DeleteTicket started commits, the row it expired has status OPEN.
DeleteArchivesOnlyOpen ==
    [][\A p \in Procs :
          ( /\ pc[p] = "ar_commit"
            /\ call[p].op = "DeleteTicket"
            /\ pc'[p] = "idle"
            /\ res' = "nil" )
          => tickets'[call[p].id].Status = StatusOpen]_vars

====
